---------------------------- MODULE Spec2Model ----------------------------
(***************************************************************************)
(* Model of two_button_blink.c: a kernel module that maps the GPIO block,  *)
(* starts one polling thread (poll_thread_fn) that samples two buttons,    *)
(* adjusts blink_freq on short presses, toggles the LED and sleeps for a   *)
(* half period, and a module exit that stops the thread, clears the LED    *)
(* and unmaps the block.                                                   *)
(*                                                                         *)
(* Time is counted in jiffies.  The loop body takes no time; time passes   *)
(* only while the thread sleeps in msleep.  The buttons are an             *)
(* environment that may press or release either pin at any instant.        *)
(***************************************************************************)
EXTENDS Integers, Sequences, FiniteSets, TLC

(***************************************************************************)
(* Bounds of the model.                                                    *)
(***************************************************************************)
\* ticks per second (the kernel's HZ, scaled down)
HZ == 2
\* width of the jiffies counter in bits (unsigned long, scaled down)
JiffiesBits == 3
\* model horizon: ticks after which time no longer advances
MaxTime == 5
\* msleep may oversleep by up to this many ticks
MaxSlack == 1
\* width of int in bits (blink_freq, scaled down)
IntBits == 12
\* ticks during which buttons are pressed, and elapsed time is recorded,
\* in the fair specification
MaxPressTime == 1

(***************************************************************************)
(* Program constants.                                                      *)
(***************************************************************************)
GPIO_LED == 18
GPIO_BTN_INC == 23
GPIO_BTN_DEC == 24
InitialFreq == 2
FreqStep == 5
FreqFloor == 1
MsPerSecond == 1000

Buttons == {GPIO_BTN_INC, GPIO_BTN_DEC}

VARIABLES
    \* ---- globals of the module (lines 36-47)
    gpio_base,          \* "NULL" or "addr": the pointer value
    poll_thread,        \* "NULL", "task" or "ERR_PTR"
    running,
    blink_freq,
    last_inc_state,
    last_dec_state,
    inc_press_jiffies,
    dec_press_jiffies,
    \* ---- local of poll_thread_fn (line 73)
    led_on,
    \* ---- kernel and hardware state
    jiffies,            \* the tick counter, modulo 2^JiffiesBits
    mapped,             \* TRUE while the ioremap mapping exists
    should_stop,        \* what kthread_should_stop() returns
    gplev,              \* level of each button pin (GPLEV0 bits)
    led_pin,            \* level driven on the LED pin
    sleep_left,         \* ticks the thread still sleeps in msleep
    \* ---- control
    init_ret,           \* "none", "ok", "ENOMEM", "PTR_ERR": two_button_init
    t_pc,               \* "none", "check", "body", "sleep", "exited"
    e_pc,               \* position of two_button_exit
    \* ---- history (observers, never read by the program)
    now,                \* ticks elapsed since the start of the behaviour
    reg_fault,          \* a register was accessed while unmapped
    iter_odd,           \* the number of completed iterations is odd
    led_calls,          \* LED calls issued by the last step that issued any
    msleep_call,        \* <<>> or <<[div, ms]>>: the last msleep computation
    sampled,            \* <<>> or what the last iteration started from: the
                        \* frequency, LED state and jiffies, and per button
                        \* the level read, the last level and the stamp
    stamped,            \* per button: the value of now when its press stamp
                        \* was last written, -1 while it never was
    turned,             \* per button: the value of now when an iteration
                        \* last saw its level change, -1 while none did
    iters_after_stop,   \* loop bodies begun after running was cleared
    held,               \* per button: ticks that passed while the pin was LOW
                        \* in its last press, counted up to HZ + 1
    cycles              \* per button: presses begun since the loop last
                        \* sampled the pin HIGH, counted up to 2; a press
                        \* under way at load has an unknown length and
                        \* counts as 2

vars == <<gpio_base, poll_thread, running, blink_freq, last_inc_state,
          last_dec_state, inc_press_jiffies, dec_press_jiffies, led_on,
          jiffies, mapped, should_stop, gplev, led_pin, sleep_left,
          init_ret, t_pc, e_pc, now, reg_fault, iter_odd, led_calls,
          msleep_call, sampled, stamped, turned, iters_after_stop, held,
          cycles>>

globals == <<running, blink_freq, last_inc_state, last_dec_state,
             inc_press_jiffies, dec_press_jiffies>>
envvars == <<jiffies, gplev, now>>
pressobs == <<held, cycles>>
edges == <<stamped, turned>>

(***************************************************************************)
(* Arithmetic helpers.                                                     *)
(***************************************************************************)
Min(a, b) == IF a < b THEN a ELSE b

RECURSIVE Pow2(_)
Pow2(n) == IF n = 0 THEN 1 ELSE 2 * Pow2(n - 1)

JiffiesMod == Pow2(JiffiesBits)

Abs(a) == IF a < 0 THEN -a ELSE a

\* C integer division: truncates toward zero.  b # 0.
CDiv(a, b) ==
    LET q == Abs(a) \div Abs(b)
    IN  IF (a < 0) = (b < 0) THEN q ELSE -q

\* int arithmetic (lines 90, 111).  Signed overflow wraps: a kernel module
\* is built with -fno-strict-overflow, which defines it so.
IntMax == Pow2(IntBits - 1) - 1
IntWrap(x) == ((x + Pow2(IntBits - 1)) % Pow2(IntBits)) - Pow2(IntBits - 1)
IntAdd(a, b) == IntWrap(a + b)

\* faulty variant of JiffiesSub: the difference of the counter values
JiffiesSubNoWrap(a, b) == a - b
\* unsigned long subtraction (lines 88, 109): wraps modulo 2^JiffiesBits
JiffiesSub(a, b) == (a - b + JiffiesMod) % JiffiesMod

\* the module may be loaded at any time; two load times are modelled, one
\* of them so close to the wrap of the counter that presses cross it
JiffiesAtLoad == {0, JiffiesMod - HZ}

(***************************************************************************)
(* GPIO helpers (lines 52-66).                                             *)
(***************************************************************************)
\* gpio_read_pin: the pin's bit of GPLEV0, normalised to 0 or 1
gpio_read_pin(pin) == IF gplev[pin] # 0 THEN 1 ELSE 0

\* a register access faults when the block is not mapped
RegAccess == reg_fault \/ ~mapped

(***************************************************************************)
(* The pieces of one loop iteration (lines 76-135).                        *)
(***************************************************************************)
\* faulty variant of IsShortPress: <= in place of <
IsShortPressInclusive(diff) == diff <= HZ
\* line 89 / 110: diff < HZ
IsShortPress(diff) == diff < HZ

\* faulty variant of ClampFloor: the floor one too low
ClampFloorOffByOne(f) == IF f < FreqFloor - 1 THEN FreqFloor - 1 ELSE f
\* lines 112-113 and 133-134: if (blink_freq < 1) blink_freq = 1
ClampFloor(f) == IF f < FreqFloor THEN FreqFloor ELSE f

\* faulty variant of NextLast: the last level is never updated
NextLastStale(curr, last) == last
\* lines 82, 94 / 103, 117: inside if (curr != last): last = curr
NextLast(curr, last) == IF curr # last THEN curr ELSE last

\* faulty variant of StampsPress: the press is never stamped
StampsPressNever(curr, last) == FALSE
\* lines 82-84 / 103-105: the branch that writes the press stamp is taken
StampsPress(curr, last) == curr # last /\ curr = 0

\* faulty variant of NextPress: stamped whenever the pin is read LOW
NextPressWhileLow(curr, last, press) ==
    IF curr = 0 THEN jiffies ELSE press
\* faulty variant of NextPress: stamped on the release as well
NextPressOnAnyEdge(curr, last, press) ==
    IF curr # last THEN jiffies ELSE press
\* lines 82-86 / 103-107: the press stamp after sampling curr
NextPress(curr, last, press) ==
    IF StampsPress(curr, last) THEN jiffies ELSE press

\* lines 82-93: blink_freq after the increment button sampled curr
IncFreq(curr, f) ==
    IF curr # last_inc_state /\ curr # 0
       /\ IsShortPress(JiffiesSub(jiffies, inc_press_jiffies))
    THEN IntAdd(f, FreqStep)
    ELSE f

\* lines 103-116: blink_freq after the decrement button sampled curr
DecFreq(curr, f) ==
    IF curr # last_dec_state /\ curr # 0
       /\ IsShortPress(JiffiesSub(jiffies, dec_press_jiffies))
    THEN ClampFloor(IntAdd(f, -FreqStep))
    ELSE f

\* faulty variant of LedNext: the LED state is never cleared
LedStuckOn(on) == TRUE
\* lines 124-130: the new value of led_on
LedNext(on) == IF on THEN FALSE ELSE TRUE

\* lines 124-130: the hardware call issued for the toggle
LedCall(on) == IF on THEN "clear" ELSE "set"

\* the level a call leaves on the LED pin (lines 52-60)
LedLevel(call) == IF call = "set" THEN 1 ELSE 0

\* faulty variant of SleepFreq: the value read before the buttons
SleepFreqStale(before, after) == before
\* line 135 reads blink_freq as the iteration has left it
SleepFreq(before, after) == after

\* faulty variant of HalfPeriodMs: the full period, not half of it
HalfPeriodNoHalving(f) == IF f = 0 THEN -1 ELSE CDiv(MsPerSecond, f)
\* line 135: (1000 / blink_freq) / 2; -1 stands for a division fault
HalfPeriodMs(f) ==
    IF f = 0 THEN -1 ELSE CDiv(CDiv(MsPerSecond, f), 2)

\* msleep(ms) sleeps at least ms milliseconds: the ticks that cover ms.
\* A negative argument (converted to a huge unsigned) never returns: -1.
MsecsToJiffies(ms) ==
    IF ms < 0 THEN -1 ELSE (ms * HZ + MsPerSecond - 1) \div MsPerSecond

\* faulty variant of LoopCondition: running is not read
LoopConditionNoRunning == ~should_stop
\* line 75: !kthread_should_stop() && running
LoopCondition == ~should_stop /\ running

(***************************************************************************)
(* Initial state: the static initialisers (lines 36-47), the module not    *)
(* yet loaded, the pins at whatever level the hardware has.                *)
(***************************************************************************)
Init ==
    /\ gpio_base = "NULL"
    /\ poll_thread = "NULL"
    /\ running = TRUE
    /\ blink_freq = InitialFreq
    /\ last_inc_state = 1
    /\ last_dec_state = 1
    /\ inc_press_jiffies = 0
    /\ dec_press_jiffies = 0
    /\ led_on = FALSE
    /\ jiffies \in JiffiesAtLoad
    /\ mapped = FALSE
    /\ should_stop = FALSE
    /\ gplev \in [Buttons -> {0, 1}]
    /\ led_pin \in {0, 1}
    /\ sleep_left = 0
    /\ init_ret = "none"
    /\ t_pc = "none"
    /\ e_pc = "idle"
    /\ now = 0
    /\ reg_fault = FALSE
    /\ iter_odd = FALSE
    /\ led_calls = <<>>
    /\ msleep_call = <<>>
    /\ sampled = <<>>
    /\ stamped = [b \in Buttons |-> -1]
    /\ turned = [b \in Buttons |-> -1]
    /\ iters_after_stop = 0
    /\ held = [b \in Buttons |-> 0]
    /\ cycles = [b \in Buttons |-> IF gplev[b] = 0 THEN 2 ELSE 0]

(***************************************************************************)
(* two_button_init (lines 144-199).                                        *)
(***************************************************************************)
\* faulty variant of MappingAfterLaunchFailure: no iounmap
MappingKeptOnLaunchFailure == TRUE
\* line 193: iounmap(gpio_base) when kthread_run failed
MappingAfterLaunchFailure == FALSE

\* lines 151-155: ioremap fails
two_button_init_nomem ==
    /\ init_ret = "none"
    /\ init_ret' = "ENOMEM"
    /\ UNCHANGED <<gpio_base, poll_thread, globals, led_on, mapped,
                   should_stop, led_pin, sleep_left, t_pc, e_pc, reg_fault,
                   iter_odd, led_calls, msleep_call, sampled,
                   edges, iters_after_stop,
                   envvars>>

\* lines 151-195: ioremap succeeds, the pins are configured, kthread_run
\* fails: the mapping is released (the pointer is left as it is)
two_button_init_nothread ==
    /\ init_ret = "none"
    /\ gpio_base' = "addr"
    /\ running' = TRUE
    /\ poll_thread' = "ERR_PTR"
    /\ mapped' = MappingAfterLaunchFailure
    /\ init_ret' = "PTR_ERR"
    /\ UNCHANGED <<blink_freq, last_inc_state, last_dec_state,
                   inc_press_jiffies, dec_press_jiffies, led_on,
                   should_stop, led_pin, sleep_left, t_pc, e_pc, reg_fault,
                   iter_odd, led_calls, msleep_call, sampled,
                   edges, iters_after_stop,
                   envvars>>

\* lines 151-198: everything succeeds; the thread starts at line 73
two_button_init_ok ==
    /\ init_ret = "none"
    /\ gpio_base' = "addr"
    /\ mapped' = TRUE
    /\ running' = TRUE
    /\ poll_thread' = "task"
    /\ t_pc' = "check"
    /\ led_on' = FALSE
    /\ init_ret' = "ok"
    /\ UNCHANGED <<blink_freq, last_inc_state, last_dec_state,
                   inc_press_jiffies, dec_press_jiffies, should_stop,
                   led_pin, sleep_left, e_pc, reg_fault, iter_odd,
                   led_calls, msleep_call, sampled,
                   edges, iters_after_stop, envvars>>

(***************************************************************************)
(* poll_thread_fn (lines 71-139).                                          *)
(***************************************************************************)
\* line 75: the while condition; line 138: return 0
poll_thread_fn_check ==
    /\ t_pc = "check"
    /\ t_pc' = IF LoopCondition THEN "body" ELSE "exited"
    /\ UNCHANGED <<gpio_base, poll_thread, globals, led_on, mapped,
                   should_stop, led_pin, sleep_left, init_ret, e_pc,
                   reg_fault, iter_odd, led_calls, msleep_call, sampled, edges,
                   iters_after_stop, envvars>>

\* lines 76-135: one iteration up to the call of msleep
poll_thread_fn_body ==
    /\ t_pc = "body"
    /\ LET curr_inc == gpio_read_pin(GPIO_BTN_INC)
           curr_dec == gpio_read_pin(GPIO_BTN_DEC)
           f1 == IncFreq(curr_inc, blink_freq)
           f2 == DecFreq(curr_dec, f1)
           f3 == ClampFloor(f2)
           fs == SleepFreq(blink_freq, f3)
           ms == HalfPeriodMs(fs)
           call == LedCall(led_on)
       IN  /\ inc_press_jiffies' =
                  NextPress(curr_inc, last_inc_state, inc_press_jiffies)
           /\ last_inc_state' = NextLast(curr_inc, last_inc_state)
           /\ dec_press_jiffies' =
                  NextPress(curr_dec, last_dec_state, dec_press_jiffies)
           /\ last_dec_state' = NextLast(curr_dec, last_dec_state)
           /\ led_calls' = <<call>>
           /\ led_pin' = LedLevel(call)
           /\ led_on' = LedNext(led_on)
           /\ blink_freq' = f3
           /\ msleep_call' = <<[div |-> fs, ms |-> ms]>>
           /\ stamped' =
                  (GPIO_BTN_INC :>
                       IF StampsPress(curr_inc, last_inc_state)
                       THEN now ELSE stamped[GPIO_BTN_INC])
                  @@ (GPIO_BTN_DEC :>
                       IF StampsPress(curr_dec, last_dec_state)
                       THEN now ELSE stamped[GPIO_BTN_DEC])
           /\ turned' =
                  (GPIO_BTN_INC :>
                       IF curr_inc # last_inc_state
                       THEN now ELSE turned[GPIO_BTN_INC])
                  @@ (GPIO_BTN_DEC :>
                       IF curr_dec # last_dec_state
                       THEN now ELSE turned[GPIO_BTN_DEC])
           /\ sampled' = <<[freq |-> blink_freq, led |-> led_on,
                            jiffies |-> jiffies, now |-> now,
                            curr |-> [b \in Buttons |-> gpio_read_pin(b)],
                            last |-> (GPIO_BTN_INC :> last_inc_state
                                      @@ GPIO_BTN_DEC :> last_dec_state),
                            press |-> (GPIO_BTN_INC :> inc_press_jiffies
                                       @@ GPIO_BTN_DEC :> dec_press_jiffies)]>>
           /\ \E slack \in 0..MaxSlack :
                  sleep_left' = IF MsecsToJiffies(ms) < 0
                                THEN -1
                                ELSE MsecsToJiffies(ms) + slack
    /\ reg_fault' = RegAccess
    /\ iter_odd' = ~iter_odd
    /\ iters_after_stop' = IF running THEN iters_after_stop
                           ELSE Min(iters_after_stop + 1, 2)
    /\ t_pc' = "sleep"
    /\ UNCHANGED <<gpio_base, poll_thread, running, mapped, should_stop,
                   init_ret, e_pc, envvars>>

\* line 135: msleep returns
poll_thread_fn_wake ==
    /\ t_pc = "sleep"
    /\ sleep_left = 0
    /\ t_pc' = "check"
    /\ UNCHANGED <<gpio_base, poll_thread, globals, led_on, mapped,
                   should_stop, led_pin, sleep_left, init_ret, e_pc,
                   reg_fault, iter_odd, led_calls, msleep_call, sampled, edges,
                   iters_after_stop, envvars>>

(***************************************************************************)
(* two_button_exit (lines 204-217).  The kernel calls it only after        *)
(* two_button_init returned 0.                                             *)
(***************************************************************************)
\* line 206: running = false
two_button_exit_running ==
    /\ init_ret = "ok"
    /\ e_pc = "idle"
    /\ running' = FALSE
    /\ e_pc' = "kthread_stop"
    /\ UNCHANGED <<gpio_base, poll_thread, blink_freq, last_inc_state,
                   last_dec_state, inc_press_jiffies, dec_press_jiffies,
                   led_on, mapped, should_stop, led_pin, sleep_left,
                   init_ret, t_pc, reg_fault, iter_odd, led_calls,
                   msleep_call, sampled, edges, iters_after_stop, envvars>>

\* lines 207-208: kthread_stop(poll_thread) is entered.  On a live thread
\* it sets the stop flag and waits.  A thread that already returned on its
\* own has released its task: the call then uses freed memory, and either
\* returns or brings the exit path down.
two_button_exit_kthread_stop ==
    /\ e_pc = "kthread_stop"
    /\ poll_thread # "NULL"
    /\ \/ /\ t_pc # "exited"
          /\ should_stop' = TRUE
          /\ e_pc' = "wait"
       \/ /\ t_pc = "exited"
          /\ should_stop' = should_stop
          /\ e_pc' \in {"clear", "crashed"}
    /\ UNCHANGED <<gpio_base, poll_thread, globals, led_on, mapped, led_pin,
                   sleep_left, init_ret, t_pc, reg_fault, iter_odd,
                   led_calls, msleep_call, sampled,
                   edges, iters_after_stop, envvars>>

\* faulty variant of KthreadStopMayReturn: no wait for the thread
KthreadStopNoWait == TRUE
\* line 208: kthread_stop returns once the thread function has returned
KthreadStopMayReturn == t_pc = "exited"

\* line 208: kthread_stop returns
two_button_exit_stopped ==
    /\ e_pc = "wait"
    /\ KthreadStopMayReturn
    /\ e_pc' = "clear"
    /\ UNCHANGED <<gpio_base, poll_thread, globals, led_on, mapped,
                   should_stop, led_pin, sleep_left, init_ret, t_pc,
                   reg_fault, iter_odd, led_calls, msleep_call, sampled, edges,
                   iters_after_stop, envvars>>

\* faulty variant of ExitLedCall: the loop's last LED call is repeated
ExitLedCallRepeatsLast == IF led_on THEN "set" ELSE "clear"
\* line 210: the LED call of two_button_exit
ExitLedCall == "clear"

\* line 210: gpio_clear_pin(GPIO_LED)
two_button_exit_clear ==
    /\ e_pc = "clear"
    /\ led_calls' = <<ExitLedCall>>
    /\ led_pin' = LedLevel(ExitLedCall)
    /\ reg_fault' = RegAccess
    /\ e_pc' = "unmap"
    /\ UNCHANGED <<gpio_base, poll_thread, globals, led_on, mapped,
                   should_stop, sleep_left, init_ret, t_pc, iter_odd,
                   msleep_call, sampled, edges, iters_after_stop, envvars>>

\* lines 211-216: iounmap and gpio_base = NULL, then return
two_button_exit_unmap ==
    /\ e_pc = "unmap"
    /\ mapped' = IF gpio_base # "NULL" THEN FALSE ELSE mapped
    /\ gpio_base' = "NULL"
    /\ e_pc' = "done"
    /\ UNCHANGED <<poll_thread, globals, led_on, should_stop, led_pin,
                   sleep_left, init_ret, t_pc, reg_fault, iter_odd,
                   led_calls, msleep_call, sampled,
                   edges, iters_after_stop, envvars>>

(***************************************************************************)
(* The environment: the two buttons and the clock.                         *)
(***************************************************************************)
LoopAlive == t_pc \in {"check", "body", "sleep"}

\* a button is pressed: its pin goes LOW
ButtonPress(b) ==
    /\ LoopAlive
    /\ gplev[b] = 1
    /\ gplev' = [gplev EXCEPT ![b] = 0]
    /\ UNCHANGED <<gpio_base, poll_thread, globals, led_on, mapped,
                   should_stop, led_pin, sleep_left, init_ret, t_pc, e_pc,
                   reg_fault, iter_odd, led_calls, msleep_call, sampled, edges,
                   iters_after_stop, jiffies, now>>

\* a button is released: its pin goes HIGH (pull-up)
ButtonRelease(b) ==
    /\ LoopAlive
    /\ gplev[b] = 0
    /\ gplev' = [gplev EXCEPT ![b] = 1]
    /\ UNCHANGED <<gpio_base, poll_thread, globals, led_on, mapped,
                   should_stop, led_pin, sleep_left, init_ret, t_pc, e_pc,
                   reg_fault, iter_odd, led_calls, msleep_call, sampled, edges,
                   iters_after_stop, jiffies, now>>

PressInc == ButtonPress(GPIO_BTN_INC)
ReleaseInc == ButtonRelease(GPIO_BTN_INC)
PressDec == ButtonPress(GPIO_BTN_DEC)
ReleaseDec == ButtonRelease(GPIO_BTN_DEC)

\* one jiffy passes while the thread sleeps
Tick ==
    /\ t_pc = "sleep"
    /\ sleep_left # 0
    /\ now < MaxTime
    /\ now' = now + 1
    /\ jiffies' = (jiffies + 1) % JiffiesMod
    /\ sleep_left' = IF sleep_left > 0 THEN sleep_left - 1 ELSE sleep_left
    /\ UNCHANGED <<gpio_base, poll_thread, globals, led_on, mapped,
                   should_stop, gplev, led_pin, init_ret, t_pc, e_pc,
                   reg_fault, iter_odd, led_calls, msleep_call, sampled, edges,
                   iters_after_stop>>

(***************************************************************************)
(* The whole program: load, the polling thread, unload, the buttons and    *)
(* the clock.  The observers of physical presses are not kept here.        *)
(***************************************************************************)
Next ==
    \/ two_button_init_nomem /\ UNCHANGED pressobs
    \/ two_button_init_nothread /\ UNCHANGED pressobs
    \/ two_button_init_ok /\ UNCHANGED pressobs
    \/ poll_thread_fn_check /\ UNCHANGED pressobs
    \/ poll_thread_fn_body /\ UNCHANGED pressobs
    \/ poll_thread_fn_wake /\ UNCHANGED pressobs
    \/ two_button_exit_running /\ UNCHANGED pressobs
    \/ two_button_exit_kthread_stop /\ UNCHANGED pressobs
    \/ two_button_exit_stopped /\ UNCHANGED pressobs
    \/ two_button_exit_clear /\ UNCHANGED pressobs
    \/ two_button_exit_unmap /\ UNCHANGED pressobs
    \/ PressInc /\ UNCHANGED pressobs
    \/ ReleaseInc /\ UNCHANGED pressobs
    \/ PressDec /\ UNCHANGED pressobs
    \/ ReleaseDec /\ UNCHANGED pressobs
    \/ Tick /\ UNCHANGED pressobs

Spec == Init /\ [][Next]_vars

(***************************************************************************)
(* The loaded module with the physical presses observed: the loop, the     *)
(* buttons and the clock, and for each button how long its pin really was  *)
(* LOW.  A press begins and ends between two ticks, so a press during      *)
(* which h ticks passed lasted more than h - 1 and less than h + 1 ticks.  *)
(***************************************************************************)
ObsPress(b) ==
    /\ held' = [held EXCEPT ![b] = 0]
    /\ cycles' = [cycles EXCEPT ![b] = Min(@ + 1, 2)]

ObsBody ==
    /\ held' = held
    /\ cycles' = [b \in Buttons |->
                     IF gpio_read_pin(b) = 1 THEN 0 ELSE cycles[b]]

ObsTick ==
    /\ cycles' = cycles
    /\ held' = [b \in Buttons |->
                   IF gplev[b] = 0 THEN Min(held[b] + 1, HZ + 1)
                   ELSE held[b]]

NextWatched ==
    \/ two_button_init_ok /\ UNCHANGED pressobs
    \/ poll_thread_fn_check /\ UNCHANGED pressobs
    \/ poll_thread_fn_body /\ ObsBody
    \/ poll_thread_fn_wake /\ UNCHANGED pressobs
    \/ PressInc /\ ObsPress(GPIO_BTN_INC)
    \/ ReleaseInc /\ UNCHANGED pressobs
    \/ PressDec /\ ObsPress(GPIO_BTN_DEC)
    \/ ReleaseDec /\ UNCHANGED pressobs
    \/ Tick /\ ObsTick

SpecWatched == Init /\ [][NextWatched]_vars

(***************************************************************************)
(* Vocabulary of the properties.                                           *)
(***************************************************************************)
\* a step that is one loop iteration
IterationStep == t_pc = "body" /\ t_pc' = "sleep"

last_state(b) == IF b = GPIO_BTN_INC THEN last_inc_state ELSE last_dec_state
press_jiffies(b) ==
    IF b = GPIO_BTN_INC THEN inc_press_jiffies ELSE dec_press_jiffies
Other(b) == IF b = GPIO_BTN_INC THEN GPIO_BTN_DEC ELSE GPIO_BTN_INC

\* the iteration about to run samples a release / a press / no transition
SeesRelease(b) == gplev[b] = 1 /\ last_state(b) = 0
SeesPress(b) == gplev[b] = 0 /\ last_state(b) = 1
SeesNothing(b) == gplev[b] = last_state(b)

\* exactly one physical press of b began since the loop last saw b HIGH
\* and it is over; it surely lasted less / more than one second
OneShortPressDone(b) == gplev[b] = 1 /\ cycles[b] = 1 /\ held[b] < HZ
OneLongPressDone(b) == gplev[b] = 1 /\ cycles[b] = 1 /\ held[b] > HZ

(***************************************************************************)
(* C3: every physical press of the increment button that lasts less than   *)
(* one second changes the frequency by +5, exactly once; from frequency 2  *)
(* the result is 7 and the next half period 71.  Stated for the iteration  *)
(* that first samples the pin HIGH again after such a press, the decrement *)
(* button showing no transition; the code does not satisfy it.             *)
(***************************************************************************)
C3_EveryShortPressCounted ==
    [][(IterationStep /\ OneShortPressDone(GPIO_BTN_INC)
           /\ SeesNothing(GPIO_BTN_DEC))
        => /\ blink_freq' = blink_freq + FreqStep
           /\ (blink_freq = 2 =>
                  blink_freq' = 7 /\ msleep_call'[1].ms = 71)]_vars

(***************************************************************************)
(* C4: the release of a physical press of either button that lasted at     *)
(* least one second does not change the frequency.  Stated for the         *)
(* iteration that samples the release of a single press that surely lasted *)
(* more than a second, the other button showing no transition; the code    *)
(* does not satisfy it.                                                    *)
(***************************************************************************)
C4_LongPressIgnored ==
    [][\A b \in Buttons :
          (IterationStep /\ SeesRelease(b) /\ OneLongPressDone(b)
              /\ SeesNothing(Other(b)))
          => blink_freq' = blink_freq]_vars

(***************************************************************************)
(* What the last completed iteration saw, read from the history variable   *)
(* sampled.  Nothing but an iteration changes the frequency, the last      *)
(* levels or the stamps, so these describe the current values from the end *)
(* of one iteration to the end of the next.                                *)
(***************************************************************************)
Iterated == sampled # <<>>
Seen == sampled[1]
Max(a, b) == IF a > b THEN a ELSE b

SawRelease(b) == Seen.curr[b] = 1 /\ Seen.last[b] = 0
SawPress(b) == Seen.curr[b] = 0 /\ Seen.last[b] = 1
SawNothing(b) == Seen.curr[b] = Seen.last[b]
\* held = now - press_start, as the loop measures it
HeldMeasured(b) == JiffiesSub(Seen.jiffies, Seen.press[b])
ShortRelease(b) == SawRelease(b) /\ HeldMeasured(b) < HZ
LongRelease(b) == SawRelease(b) /\ HeldMeasured(b) >= HZ

\* two_button_exit has not yet issued its own LED call
ExitNotCleared == e_pc \in {"idle", "kthread_stop", "wait", "clear", "crashed"}

(***************************************************************************)
(* C1: the frequency is at least 1 in every state, and so is the divisor   *)
(* of every delay computation; an iteration that starts at frequency 1 and *)
(* sees a short press of the decrement button (and none of the increment   *)
(* button) ends at frequency 1.                                            *)
(***************************************************************************)
C1_FrequencyFloor ==
    /\ blink_freq >= 1
    /\ msleep_call # <<>> => msleep_call[1].div >= 1
    /\ (Iterated /\ Seen.freq = 1 /\ ShortRelease(GPIO_BTN_DEC)
            /\ ~ShortRelease(GPIO_BTN_INC))
        => blink_freq = 1

\* an iteration that started at the floor has processed a decrement
C1_Witness ==
    /\ Iterated
    /\ Seen.freq = 1
    /\ ShortRelease(GPIO_BTN_DEC)
    /\ ~ShortRelease(GPIO_BTN_INC)
    /\ blink_freq = 1
    /\ msleep_call[1].div = 1

(***************************************************************************)
(* C2: after an iteration that started at frequency f, the frequency is f  *)
(* changed by +5 if the increment button was sampled HIGH after LOW with   *)
(* held < HZ, then to max(. - 5, 1) if the decrement button was sampled    *)
(* HIGH after LOW with held < HZ; a release with held >= HZ, a press and   *)
(* an unchanged level change nothing.                                      *)
(***************************************************************************)
C2_ReleaseClassification ==
    Iterated =>
        LET f1 == IF ShortRelease(GPIO_BTN_INC)
                  THEN Seen.freq + 5 ELSE Seen.freq
            f2 == IF ShortRelease(GPIO_BTN_DEC)
                  THEN Max(f1 - 5, 1) ELSE f1
        IN  blink_freq = f2

\* one iteration saw a long release of one button and a short release of
\* the other; only the short one counted
C2_Witness ==
    /\ Iterated
    /\ LongRelease(GPIO_BTN_INC)
    /\ ShortRelease(GPIO_BTN_DEC)
    /\ Seen.freq = 7
    /\ blink_freq = 2

(***************************************************************************)
(* C5: every iteration flips led_on and issues exactly one LED call, set   *)
(* when it was unlit and clear when it was lit; the first iteration        *)
(* lights it, so after the n-th iteration the LED is lit iff n is odd.     *)
(***************************************************************************)
C5_OutputAlternation ==
    /\ ~Iterated => ~iter_odd /\ ~led_on
    /\ Iterated =>
          /\ led_on = ~Seen.led
          /\ led_on = iter_odd
          /\ ExitNotCleared =>
                /\ led_calls = <<IF Seen.led THEN "clear" ELSE "set">>
                /\ led_pin = IF led_on THEN 1 ELSE 0

\* an even iteration that also changed the frequency turned the LED off
C5_Witness ==
    /\ Iterated
    /\ Seen.led
    /\ ~led_on
    /\ ~iter_odd
    /\ led_calls = <<"clear">>
    /\ blink_freq # Seen.freq
    /\ e_pc = "idle"

(***************************************************************************)
(* C6: after running was cleared at most one more loop body runs, and when *)
(* two_button_exit has returned the loop function has returned and the     *)
(* last LED call is clear, the pin LOW.                                    *)
(***************************************************************************)
C6_StopWithinOneIteration ==
    /\ iters_after_stop <= 1
    /\ e_pc = "done" =>
          /\ t_pc = "exited"
          /\ led_calls = <<"clear">>
          /\ led_pin = 0

\* exit returned after the iteration in flight had left the LED lit
C6_Witness ==
    /\ e_pc = "done"
    /\ iters_after_stop = 1
    /\ led_on
    /\ led_pin = 0

(***************************************************************************)
(* C7: no register is accessed while the block is unmapped, and after a    *)
(* successful load the mapping is gone only once the loop function has     *)
(* returned.                                                               *)
(***************************************************************************)
C7_NoAccessAfterUnmap ==
    /\ ~reg_fault
    /\ (init_ret = "ok" /\ ~mapped) => t_pc = "exited"

\* the module was unloaded after the loop had run and been waited for
C7_Witness ==
    /\ e_pc = "done"
    /\ ~mapped
    /\ t_pc = "exited"
    /\ should_stop
    /\ Iterated

(***************************************************************************)
(* C8: a load that fails leaves no mapping and no thread, whichever step   *)
(* failed; a load that succeeded holds the mapping (until unload releases  *)
(* it) and has launched the thread.                                        *)
(***************************************************************************)
C8_StartupFailureClean ==
    /\ init_ret = "ENOMEM" =>
          ~mapped /\ t_pc = "none" /\ poll_thread = "NULL"
    /\ init_ret = "PTR_ERR" =>
          ~mapped /\ t_pc = "none" /\ poll_thread = "ERR_PTR"
    /\ init_ret = "ok" =>
          /\ poll_thread = "task"
          /\ t_pc # "none"
          /\ e_pc # "done" => mapped

\* the thread could not be created: the mapping acquired was released
C8_Witness ==
    /\ init_ret = "PTR_ERR"
    /\ gpio_base = "addr"
    /\ ~mapped
    /\ t_pc = "none"

(***************************************************************************)
(* C9: the argument of every msleep is (1000 div f) div 2, truncating,     *)
(* where f is the frequency the iteration ended with, and f is never 0:    *)
(* f = 2 gives 250, f = 7 gives 71, f = 1 gives 500.                       *)
(***************************************************************************)
C9_HalfPeriod ==
    msleep_call # <<>> =>
        LET f == msleep_call[1].div
            ms == msleep_call[1].ms
        IN  /\ f = blink_freq
            /\ f # 0
            /\ ms >= 0
            /\ \E q \in {2 * ms, 2 * ms + 1} :
                   q * f <= 1000 /\ 1000 < (q + 1) * f
            /\ f = 2 => ms = 250
            /\ f = 7 => ms = 71
            /\ f = 1 => ms = 500

\* the iteration in which a decrement was clamped to the floor slept 500
C9_Witness ==
    /\ Iterated
    /\ ShortRelease(GPIO_BTN_DEC)
    /\ Seen.freq = 2
    /\ ~ShortRelease(GPIO_BTN_INC)
    /\ msleep_call = <<[div |-> 1, ms |-> 500]>>

(***************************************************************************)
(* C10: before the first iteration both last levels are HIGH; after an     *)
(* iteration each button's last level is the level that iteration read.    *)
(***************************************************************************)
C10_StateMirrorsInput ==
    /\ ~Iterated => last_inc_state = 1 /\ last_dec_state = 1
    /\ Iterated =>
          /\ last_inc_state = Seen.curr[GPIO_BTN_INC]
          /\ last_dec_state = Seen.curr[GPIO_BTN_DEC]

\* a release that was not a short press and a press, both mirrored
C10_Witness ==
    /\ Iterated
    /\ LongRelease(GPIO_BTN_INC)
    /\ SawPress(GPIO_BTN_DEC)
    /\ last_inc_state = 1
    /\ last_dec_state = 0

(***************************************************************************)
(* The loaded module late in a run, after many short presses of the        *)
(* increment button: the thread is about to evaluate its loop condition,   *)
(* both buttons are at rest and the frequency is a value that presses      *)
(* reach from 2: 2 + 5 * 99 = 497, or one of the values within one step of *)
(* the largest int (2 + 5k, or 1 + 5k after a clamp to the floor).  The    *)
(* history variables start afresh.                                         *)
(***************************************************************************)
HighFreqs ==
    {InitialFreq + 99 * FreqStep}
        \cup {f \in (IntMax - FreqStep + 1)..IntMax :
                 f % FreqStep \in {FreqFloor % FreqStep,
                                   InitialFreq % FreqStep}}

InitHigh ==
    /\ gpio_base = "addr"
    /\ poll_thread = "task"
    /\ running = TRUE
    /\ blink_freq \in HighFreqs
    /\ last_inc_state = 1
    /\ last_dec_state = 1
    /\ inc_press_jiffies = 0
    /\ dec_press_jiffies = 0
    /\ led_on = FALSE
    /\ jiffies \in JiffiesAtLoad
    /\ mapped = TRUE
    /\ should_stop = FALSE
    /\ gplev = [b \in Buttons |-> 1]
    /\ led_pin = 0
    /\ sleep_left = 0
    /\ init_ret = "ok"
    /\ t_pc = "check"
    /\ e_pc = "idle"
    /\ now = 0
    /\ reg_fault = FALSE
    /\ iter_odd = FALSE
    /\ led_calls = <<"clear">>
    /\ msleep_call = <<>>
    /\ sampled = <<>>
    /\ stamped = [b \in Buttons |-> -1]
    /\ turned = [b \in Buttons |-> -1]
    /\ iters_after_stop = 0
    /\ held = [b \in Buttons |-> 0]
    /\ cycles = [b \in Buttons |-> 0]

\* msleep(0) may return within the jiffy in which it was called; the
\* exploration lets no two iterations in a row do so, which bounds the
\* number of iterations by the clock
TimePassed ==
    IF sampled = <<>> THEN TRUE ELSE Seen.now < now \/ sleep_left' # 0

NextHigh ==
    \/ poll_thread_fn_check /\ UNCHANGED pressobs
    \/ poll_thread_fn_body /\ TimePassed /\ UNCHANGED pressobs
    \/ poll_thread_fn_wake /\ UNCHANGED pressobs
    \/ PressInc /\ UNCHANGED pressobs
    \/ ReleaseInc /\ UNCHANGED pressobs
    \/ PressDec /\ UNCHANGED pressobs
    \/ ReleaseDec /\ UNCHANGED pressobs
    \/ Tick /\ UNCHANGED pressobs

SpecHigh == InitHigh /\ [][NextHigh]_vars

(***************************************************************************)
(* C11: at every reachable frequency f, an iteration that sees a short     *)
(* press of the increment button (and none of the decrement button) ends   *)
(* at exactly f + 5, which is not smaller than f.  The code does not       *)
(* satisfy it at the top of the int range.                                 *)
(***************************************************************************)
C11_NoCeiling ==
    (Iterated /\ ShortRelease(GPIO_BTN_INC) /\ ~ShortRelease(GPIO_BTN_DEC))
        => blink_freq = Seen.freq + 5 /\ blink_freq >= Seen.freq

C13_SleepFromNewFrequency ==
    Iterated =>
        /\ msleep_call # <<>>
        /\ msleep_call[1].div = blink_freq
        /\ blink_freq >= 1
        /\ msleep_call[1].ms = (1000 \div blink_freq) \div 2

\* an iteration raised the frequency by a short press and slept for the
\* half period of the new frequency, which differs from that of the old
C13_Witness ==
    /\ Iterated
    /\ ShortRelease(GPIO_BTN_INC)
    /\ blink_freq = Seen.freq + 5
    /\ msleep_call[1].ms = (1000 \div blink_freq) \div 2
    /\ msleep_call[1].ms # (1000 \div Seen.freq) \div 2

(***************************************************************************)
(* C14: an iteration that reads both pins at their last recorded levels    *)
(* leaves the frequency, both last levels and both press stamps as they    *)
(* were; it toggles the LED and sleeps for the half period of the          *)
(* unchanged frequency.                                                    *)
(***************************************************************************)
C14_NoTransitionNoAction ==
    (Iterated /\ SawNothing(GPIO_BTN_INC) /\ SawNothing(GPIO_BTN_DEC)) =>
        /\ blink_freq = Seen.freq
        /\ \A b \in Buttons :
              /\ last_state(b) = Seen.last[b]
              /\ press_jiffies(b) = Seen.press[b]
        /\ led_on = ~Seen.led
        /\ msleep_call[1].div = Seen.freq

\* the increment button was held LOW across an iteration that came at a
\* later tick than the one that stamped the press
C14_Witness ==
    /\ Iterated
    /\ SawNothing(GPIO_BTN_INC)
    /\ SawNothing(GPIO_BTN_DEC)
    /\ Seen.last[GPIO_BTN_INC] = 0
    /\ Seen.press[GPIO_BTN_INC] # Seen.jiffies
    /\ inc_press_jiffies = Seen.press[GPIO_BTN_INC]

(***************************************************************************)
(* C15: each button has its own press stamp, 0 until the first press is    *)
(* seen; an iteration sets the stamp of a button to the current tick       *)
(* exactly when it sees that button go from HIGH to LOW and leaves it      *)
(* alone on a release, on no transition and on any transition of the other *)
(* button; the last level of a button follows that button's pin alone.     *)
(***************************************************************************)
C15_StampsPerButton ==
    /\ ~Iterated =>
          \A b \in Buttons : press_jiffies(b) = 0 /\ last_state(b) = 1
    /\ Iterated =>
          \A b \in Buttons :
              /\ press_jiffies(b) =
                     IF SawPress(b) THEN Seen.jiffies ELSE Seen.press[b]
              /\ last_state(b) =
                     IF Seen.curr[b] # Seen.last[b] THEN Seen.curr[b]
                     ELSE Seen.last[b]

\* one iteration saw the increment button pressed and the decrement button
\* released: only the increment stamp was set to the current tick
C15_Witness ==
    /\ Iterated
    /\ SawPress(GPIO_BTN_INC)
    /\ SawRelease(GPIO_BTN_DEC)
    /\ inc_press_jiffies = Seen.jiffies
    /\ inc_press_jiffies # Seen.press[GPIO_BTN_INC]
    /\ dec_press_jiffies = Seen.press[GPIO_BTN_DEC]
    /\ dec_press_jiffies # Seen.jiffies
    /\ last_inc_state = 0
    /\ last_dec_state = 1

(***************************************************************************)
(* C17: when two_button_exit is about to call kthread_stop, the loop       *)
(* function has not returned.  The code does not satisfy it: the loop      *)
(* returns on its own once it reads running == false.                      *)
(***************************************************************************)
C17_StopFindsWorkerRunning == e_pc = "kthread_stop" => t_pc # "exited"

\* the tick counter as it stood t ticks before it read j
JiffiesBefore(j, t) == (j + JiffiesMod - (t % JiffiesMod)) % JiffiesMod

(***************************************************************************)
(* C18: while the last level of a button is LOW, its press stamp has been  *)
(* written, by the most recent iteration that saw the button change level, *)
(* and holds the tick counter of that iteration; so an iteration that      *)
(* runs the release branch of a button measures from a stamp written by an *)
(* earlier iteration, never from the initial 0.                            *)
(***************************************************************************)
C18_ReleaseAfterRecordedPress ==
    /\ \A b \in Buttons :
          last_state(b) = 0 =>
              /\ stamped[b] >= 0
              /\ stamped[b] = turned[b]
              /\ press_jiffies(b) = JiffiesBefore(jiffies, now - stamped[b])
    /\ Iterated =>
          \A b \in Buttons :
              SawRelease(b) =>
                  /\ stamped[b] >= 0
                  /\ stamped[b] < Seen.now
                  /\ turned[b] = Seen.now
                  /\ Seen.press[b] =
                         JiffiesBefore(Seen.jiffies, Seen.now - stamped[b])

\* a release of the increment button was measured from a stamp that an
\* earlier iteration had written with a non-zero tick counter
C18_Witness ==
    /\ Iterated
    /\ SawRelease(GPIO_BTN_INC)
    /\ stamped[GPIO_BTN_INC] >= 0
    /\ stamped[GPIO_BTN_INC] < Seen.now
    /\ Seen.press[GPIO_BTN_INC] # 0
    /\ last_inc_state = 1

\* ticks that truly passed between the iteration that saw the press of b
\* and the last iteration
Elapsed(b) == Seen.now - stamped[b]

(***************************************************************************)
(* C20: an iteration that sees a release classifies it by the ticks that   *)
(* truly passed since the press was seen (fewer than 2^JiffiesBits): the   *)
(* measured time equals them, and the frequency moves by the step of each  *)
(* button released after fewer than HZ ticks and of no other, whether or   *)
(* not the tick counter wrapped in between.                                *)
(***************************************************************************)
C20_WrapKeepsClassification ==
    Iterated =>
        LET up == IF SawRelease(GPIO_BTN_INC) /\ Elapsed(GPIO_BTN_INC) < HZ
                  THEN 5 ELSE 0
            down == IF SawRelease(GPIO_BTN_DEC) /\ Elapsed(GPIO_BTN_DEC) < HZ
                    THEN 5 ELSE 0
        IN  /\ \A b \in Buttons :
                  SawRelease(b) =>
                      /\ Elapsed(b) < JiffiesMod
                      /\ HeldMeasured(b) = Elapsed(b)
            /\ blink_freq = Max(Seen.freq + up - down, 1)

\* the tick counter wrapped between a press and a release of the increment
\* button that were HZ or more ticks apart: the frequency was kept
C20_Witness ==
    /\ Iterated
    /\ SawRelease(GPIO_BTN_INC)
    /\ SawNothing(GPIO_BTN_DEC)
    /\ Seen.jiffies < Seen.press[GPIO_BTN_INC]
    /\ Elapsed(GPIO_BTN_INC) >= HZ
    /\ blink_freq = Seen.freq

(***************************************************************************)
(* C19: the argument of every msleep is at least 1.  The code does not     *)
(* satisfy it: from 501 on, (1000 / blink_freq) / 2 is 0.                  *)
(***************************************************************************)
C19_PositiveHalfPeriod == Iterated => msleep_call[1].ms >= 1

(***************************************************************************)
(* Unload under fair scheduling.  The clock does not stop: the tick        *)
(* counter goes on, and only the history of elapsed time stays put after   *)
(* MaxPressTime ticks.  Buttons are pressed during these first ticks,      *)
(* which bounds the frequency.                                             *)
(***************************************************************************)
TickOn ==
    /\ t_pc = "sleep"
    /\ sleep_left # 0
    /\ now' = Min(now + 1, MaxPressTime)
    /\ jiffies' = (jiffies + 1) % JiffiesMod
    /\ sleep_left' = IF sleep_left > 0 THEN sleep_left - 1 ELSE sleep_left
    /\ UNCHANGED <<gpio_base, poll_thread, globals, led_on, mapped,
                   should_stop, gplev, led_pin, init_ret, t_pc, e_pc,
                   reg_fault, iter_odd, led_calls, msleep_call, sampled,
                   edges, iters_after_stop>>

ThreadStep ==
    /\ poll_thread_fn_check \/ poll_thread_fn_body \/ poll_thread_fn_wake
    /\ UNCHANGED pressobs

ExitStep ==
    /\ \/ two_button_exit_kthread_stop
       \/ two_button_exit_stopped
       \/ two_button_exit_clear
       \/ two_button_exit_unmap
    /\ UNCHANGED pressobs

NextStop ==
    \/ two_button_init_ok /\ UNCHANGED pressobs
    \/ poll_thread_fn_check /\ UNCHANGED pressobs
    \/ poll_thread_fn_body /\ UNCHANGED pressobs
    \/ poll_thread_fn_wake /\ UNCHANGED pressobs
    \/ two_button_exit_running /\ UNCHANGED pressobs
    \/ two_button_exit_kthread_stop /\ UNCHANGED pressobs
    \/ two_button_exit_stopped /\ UNCHANGED pressobs
    \/ two_button_exit_clear /\ UNCHANGED pressobs
    \/ two_button_exit_unmap /\ UNCHANGED pressobs
    \/ PressInc /\ now < MaxPressTime /\ UNCHANGED pressobs
    \/ ReleaseInc /\ UNCHANGED pressobs
    \/ PressDec /\ now < MaxPressTime /\ UNCHANGED pressobs
    \/ ReleaseDec /\ UNCHANGED pressobs
    \/ TickOn /\ UNCHANGED pressobs

\* the scheduler runs the thread and the unloading process whenever they
\* can take a step, and time passes
SpecStop ==
    /\ Init
    /\ [][NextStop]_vars
    /\ WF_vars(ThreadStep)
    /\ WF_vars(ExitStep)
    /\ WF_vars(TickOn /\ UNCHANGED pressobs)

(***************************************************************************)
(* C16: once two_button_exit has been entered, it eventually returns with  *)
(* the loop function returned and the mapping released.  The code does not *)
(* satisfy it: see C17.                                                    *)
(***************************************************************************)
C16_StopCompletes ==
    (e_pc # "idle") ~> (e_pc = "done" /\ t_pc = "exited" /\ ~mapped)

\* the part of C16 that the code does satisfy: an unload that found the
\* loop still running when it called kthread_stop completes
StopOfLiveLoopCompletes ==
    (e_pc = "wait") ~> (e_pc = "done" /\ t_pc = "exited" /\ ~mapped)
============================================================================
